---- MODULE Spec2Model ----
(***************************************************************************)
(* Model of src/app.py (jhrcook/split-payments): the settlement loop of    *)
(* resolve_expenses over a list of Payer objects.                          *)
(*                                                                         *)
(* Money.  A cashflow is a Python float.  The model keeps it as an exact   *)
(* integer number of sub-units, Scale sub-units to one unit of the         *)
(* precision (one cent at PRECISION = 2), so that balances which are not   *)
(* whole multiples of the precision unit exist.  round(x, PRECISION)       *)
(* yields whole units.  A decimal value that lies exactly half way between *)
(* two units has no exact binary representation, so Python rounds it by    *)
(* the sign of its representation error: round(0.005, 2) = 0.01 but        *)
(* round(0.015, 2) = 0.01 and round(0.015 - 0.01, 2) = 0.0.  The direction *)
(* taken at a half-way magnitude is therefore a choice the model leaves    *)
(* open, fixed per magnitude for a run (tieUp) and symmetric in the sign,  *)
(* as round(-x) = -round(x) holds for floats.                              *)
(***************************************************************************)
EXTENDS Integers, Sequences, FiniteSets, TLC

\* Sub-units per unit of the precision (2: half cents, 3: thirds of a cent).
Scale == 2
\* Largest magnitude of an input cashflow, in sub-units.
MaxCash == 6
\* Largest number of rows of the expenses table.
MaxLen == 3

PEOPLE == <<"Car", "JHC", "CTH", "Jorrelle">>

PRECISION == 2

\* Ten units of currency (10.00 at PRECISION = 2), in sub-units.
TenDollars == 10 * (10 ^ PRECISION) * Scale

VARIABLES
    input,          \* the rows of `expenses`: <<[name, spent, cashflow]>>
    tieUp,          \* half-way magnitudes that round() takes away from zero
    payers,         \* the list `payers` of Payer objects
    pc,             \* position in resolve_expenses
    i,              \* next index the outer filter iterator examines
    payer,          \* index in payers of the loop variable `payer`
    j,              \* next index the inner reversed iterator examines
    recipient,      \* index in payers of the loop variable `recipient`
    instructions    \* the transfer lines printed so far, in order

vars == <<input, tieUp, payers, pc, i, payer, j, recipient, instructions>>

----------------------------------------------------------------------------
\* Arithmetic helpers

Abs(x) == IF x < 0 THEN -x ELSE x

Min(a, b) == IF a <= b THEN a ELSE b

RECURSIVE SumCash(_)
SumCash(s) == IF s = <<>> THEN 0 ELSE Head(s).cashflow + SumCash(Tail(s))

\* Magnitudes (in sub-units) that lie exactly half way between two units.
TieMags == {m \in 1..MaxCash : 2 * (m % Scale) = Scale}

\* round(m, PRECISION) of a non-negative magnitude, in whole units.
RoundMag(m) ==
    LET q == m \div Scale
        r == m % Scale
    IN  IF 2 * r < Scale THEN q
        ELSE IF 2 * r > Scale THEN q + 1
        ELSE IF m \in tieUp THEN q + 1 ELSE q

\* Rounding as floor(x + 1/2): not symmetric in the sign.
RoundHalfUp(x) == (2 * x + Scale) \div (2 * Scale)

\* round(x, PRECISION), in whole units.
Round(x) == IF x < 0 THEN -RoundMag(-x) ELSE RoundMag(x)

----------------------------------------------------------------------------
\* class Payer

Payer(row, k) ==
    [name |-> row.name, spent |-> row.spent, cashflow |-> row.cashflow, id |-> k]

owes_money(p) == Round(p.cashflow) > 0

is_owed_money(p) == Round(p.cashflow) < 0

----------------------------------------------------------------------------
\* payers.sort(key=lambda p: -p.cashflow): a stable sort, ascending in the key

\* Sort key without the minus sign: smallest cashflow first.
SortKeyAscending(p) == p.cashflow

SortKey(p) == -p.cashflow

\* An insertion that is not stable: before the first element with an equal key.
InsertPosUnstable(s, e) ==
    LET later == {k \in 1..Len(s) : SortKey(s[k]) >= SortKey(e)}
    IN  IF later = {} THEN Len(s) + 1
        ELSE CHOOSE k \in later : \A l \in later : k <= l

\* Where a stable insertion puts e: before the first element with a larger key.
InsertPos(s, e) ==
    LET later == {k \in 1..Len(s) : SortKey(s[k]) > SortKey(e)}
    IN  IF later = {} THEN Len(s) + 1
        ELSE CHOOSE k \in later : \A l \in later : k <= l

Insert(s, e) ==
    LET k == InsertPos(s, e)
    IN  SubSeq(s, 1, k - 1) \o <<e>> \o SubSeq(s, k, Len(s))

RECURSIVE SortInto(_, _)
SortInto(done, rest) ==
    IF rest = <<>> THEN done ELSE SortInto(Insert(done, Head(rest)), Tail(rest))

Sorted(s) == SortInto(<<>>, s)

----------------------------------------------------------------------------
\* Inputs

\* Names of n rows: all different, or the last row repeating the first name.
NameVectors(n) ==
    {[k \in 1..n |-> PEOPLE[k]]} \cup
    (IF n >= 2 THEN {[k \in 1..n |-> IF k = n THEN PEOPLE[1] ELSE PEOPLE[k]]}
     ELSE {})

\* A row as main() builds it: cashflow = owed per person - spent, spent >= 0.
Row(name, cash, owed) == [name |-> name, spent |-> owed - cash, cashflow |-> cash]

\* A table of small cashflows: any sub-unit values up to MaxCash.
SmallTable(names, cash) ==
    [k \in DOMAIN cash |-> Row(names[k], cash[k], MaxCash)]

\* A table of large cashflows: whole multiples of 10.00, up to 30.00.
LargeTable(cash) ==
    [k \in DOMAIN cash |-> Row(PEOPLE[k], cash[k] * TenDollars, 3 * TenDollars)]

Init ==
    /\ \E n \in 0..MaxLen :
        \/ \E names \in NameVectors(n), cash \in [1..n -> (-MaxCash)..MaxCash] :
                input = SmallTable(names, cash)
        \/ \E cash \in [1..n -> (-3)..3] :
                n >= 1 /\ input = LargeTable(cash)
    /\ tieUp \in SUBSET TieMags
    /\ payers = <<>>
    /\ pc = "start"
    /\ i = 1
    /\ payer = 0
    /\ j = 0
    /\ recipient = 0
    /\ instructions = <<>>

----------------------------------------------------------------------------
\* resolve_expenses

\* Lines 34-37: build the Payer list and sort it.
Construct ==
    /\ pc = "start"
    /\ payers' = Sorted([k \in 1..Len(input) |-> Payer(input[k], k)])
    /\ pc' = "outer"
    /\ i' = 1
    /\ UNCHANGED <<input, tieUp, payer, j, recipient, instructions>>

\* Indices the outer filter iterator can still yield, judged on the current state.
OuterCandidates == {k \in i..Len(payers) : owes_money(payers[k])}

\* Line 39: the outer iterator yields the next payer that owes money.
NextPayer ==
    /\ pc = "outer"
    /\ OuterCandidates # {}
    /\ LET k == CHOOSE c \in OuterCandidates : \A d \in OuterCandidates : c <= d
       IN  /\ payer' = k
           /\ i' = k + 1
    /\ j' = Len(payers)
    /\ pc' = "inner"
    /\ UNCHANGED <<input, tieUp, payers, recipient, instructions>>

\* Line 39: the outer iterator is exhausted.
OuterExhausted ==
    /\ pc = "outer"
    /\ OuterCandidates = {}
    /\ i' = Len(payers) + 1
    /\ pc' = "report"
    /\ UNCHANGED <<input, tieUp, payers, payer, j, recipient, instructions>>

\* Indices the inner iterator (over reversed(payers)) can still yield.
InnerCandidates == {k \in 1..j : is_owed_money(payers[k])}

\* Line 40: the inner iterator yields the next recipient that is owed money.
NextRecipient ==
    /\ pc = "inner"
    /\ InnerCandidates # {}
    /\ LET k == CHOOSE c \in InnerCandidates : \A d \in InnerCandidates : c >= d
       IN  /\ recipient' = k
           /\ j' = k - 1
    /\ pc' = "pair"
    /\ UNCHANGED <<input, tieUp, payers, i, payer, instructions>>

\* Line 40: the inner iterator is exhausted.
InnerExhausted ==
    /\ pc = "inner"
    /\ InnerCandidates = {}
    /\ j' = 0
    /\ pc' = "outer"
    /\ UNCHANGED <<input, tieUp, payers, i, payer, recipient, instructions>>

\* Lines 41-42, in whole units.
amount_exchanged ==
    Round(Min(Abs(payers[payer].cashflow), Abs(payers[recipient].cashflow)))

\* Lines 43-44.
Skip ==
    /\ pc = "pair"
    /\ amount_exchanged = 0
    /\ pc' = "inner"
    /\ UNCHANGED <<input, tieUp, payers, i, payer, j, recipient, instructions>>

\* Line 45: the printed line; fromId and toId record which objects it names.
Instruction(p, a, r) ==
    [from |-> p.name, amount |-> a, to |-> r.name, fromId |-> p.id, toId |-> r.id]

\* Lines 46-47, one after the other (payer and recipient may be the same object).
Applied(ps, p, r, a) ==
    LET paid == [ps EXCEPT ![p].cashflow = @ - a * Scale]
    IN  [paid EXCEPT ![r].cashflow = @ + a * Scale]

\* Lines 45-47.
Exchange ==
    /\ pc = "pair"
    /\ amount_exchanged # 0
    /\ instructions' = Append(instructions,
            Instruction(payers[payer], amount_exchanged, payers[recipient]))
    /\ payers' = Applied(payers, payer, recipient, amount_exchanged)
    /\ pc' = "inner"
    /\ UNCHANGED <<input, tieUp, i, payer, j, recipient>>

\* Lines 49-51: print the final cashflows and return.
Report ==
    /\ pc = "report"
    /\ pc' = "done"
    /\ UNCHANGED <<input, tieUp, payers, i, payer, j, recipient, instructions>>

Next ==
    \/ Construct
    \/ NextPayer
    \/ OuterExhausted
    \/ NextRecipient
    \/ InnerExhausted
    \/ Skip
    \/ Exchange
    \/ Report

Spec == Init /\ [][Next]_vars

----------------------------------------------------------------------------
\* Vocabulary of the properties

\* The cashflow object k was constructed with.
InitCash(k) == input[k].cashflow

\* The cashflows sum to a value that rounds to zero.
InputBalanced == Round(SumCash(input)) = 0

UniqueNames ==
    \A a, b \in 1..Len(input) : a # b => input[a].name # input[b].name

\* A table every precondition admits: not empty, names unique, and the cashflows
\* sum to exactly zero (so the sum rounds to zero whatever round() does at a tie).
ValidInput == Len(input) >= 1 /\ UniqueNames /\ SumCash(input) = 0

CashUnchanged ==
    \A k \in 1..Len(payers) : payers[k].cashflow = InitCash(payers[k].id)

AllSettled == \A k \in 1..Len(payers) : Round(payers[k].cashflow) = 0

\* This step printed a transfer line.
Emits == instructions' # instructions

RECURSIVE SumAmounts(_)
SumAmounts(s) == IF s = <<>> THEN 0 ELSE Head(s).amount + SumAmounts(Tail(s))

PaidBy(name) == SumAmounts(SelectSeq(instructions, LAMBDA t : t.from = name))

ReceivedBy(name) == SumAmounts(SelectSeq(instructions, LAMBDA t : t.to = name))

\* The printed lines without the object identities.
Lines == [k \in 1..Len(instructions) |->
            [from |-> instructions[k].from, amount |-> instructions[k].amount,
             to |-> instructions[k].to]]

----------------------------------------------------------------------------
\* C1: when the loop has finished on an input whose cashflows sum to a value
\* that rounds to zero (here: to exactly zero), every payer's cashflow rounds to
\* zero.
C1_AllSettledAtEnd == (pc = "done" /\ ValidInput) => AllSettled

\* C2: an input whose cashflows do not sum to (rounded) zero is rejected before
\* any work: the function does not complete, prints no transfer and changes no
\* cashflow.
C2_UnbalancedRejected ==
    ~InputBalanced => (pc # "done" /\ instructions = <<>> /\ CashUnchanged)

\* C3: conservation: at the end, on a valid input, each debtor has paid and each
\* creditor has received exactly the rounded magnitude of its original cashflow.
C3_Conservation ==
    (pc = "done" /\ ValidInput) =>
        \A k \in 1..Len(input) :
            /\ Round(InitCash(k)) > 0 =>
                    PaidBy(input[k].name) = Round(Abs(InitCash(k)))
            /\ Round(InitCash(k)) < 0 =>
                    ReceivedBy(input[k].name) = Round(Abs(InitCash(k)))

\* C4: no dust: every printed transfer has an amount above zero and goes from a
\* payer that owes money at that moment to a different payer that is owed money
\* at that moment; a pair whose rounded amount is zero prints nothing and changes
\* no payer.
C4_NoDust ==
    [][ValidInput =>
        /\ Emits =>
            /\ amount_exchanged > 0
            /\ owes_money(payers[payer])
            /\ is_owed_money(payers[recipient])
            /\ payer # recipient
        /\ (pc = "pair" /\ amount_exchanged = 0) =>
            (instructions' = instructions /\ payers' = payers)]_vars

\* The table [A: 30, B: -10, C: -20] at PRECISION = 2.
ExampleInput ==
    /\ Len(input) = 3
    /\ UniqueNames
    /\ InitCash(1) = 3 * TenDollars
    /\ InitCash(2) = -TenDollars
    /\ InitCash(3) = -2 * TenDollars

\* C5: emission order is debtor-major, creditor-minor in the sorted order: an
\* earlier line never comes from a payer whose original cashflow is smaller than
\* that of a later line's payer, the lines of one payer are contiguous, and within
\* one payer an earlier line never goes to a recipient whose original cashflow is
\* larger (less negative) than that of a later line's recipient.  The table
\* [A: 30, B: -10, C: -20] gives exactly [A 20 -> C, A 10 -> B] and leaves every
\* cashflow at zero.
C5_EmissionOrder ==
    /\ \A k, l \in 1..Len(instructions) : k < l =>
        /\ InitCash(instructions[k].fromId) >= InitCash(instructions[l].fromId)
        /\ instructions[k].fromId = instructions[l].fromId =>
            /\ InitCash(instructions[k].toId) <= InitCash(instructions[l].toId)
            /\ \A m \in k..l : instructions[m].fromId = instructions[k].fromId
    /\ (pc = "done" /\ ExampleInput) =>
        /\ Lines = << [from |-> input[1].name, amount |-> 20 * (10 ^ PRECISION),
                       to |-> input[3].name],
                      [from |-> input[1].name, amount |-> 10 * (10 ^ PRECISION),
                       to |-> input[2].name] >>
        /\ \A k \in 1..Len(payers) : payers[k].cashflow = 0

\* C5 witness: the example table has been settled with its two transfers.
C5_Witness == pc = "done" /\ ExampleInput /\ Len(instructions) = 2

\* C6: the sort is descending in the cashflow and stable, so payers of equal
\* cashflow keep their input order in the sorted list; hence payers of equal
\* original cashflow pay in input order, and recipients of equal original
\* cashflow are visited, within one payer, in reverse input order.
C6_StableOrder ==
    /\ pc # "start" =>
        /\ {payers[k].id : k \in 1..Len(payers)} = 1..Len(input)
        /\ \A a, b \in 1..Len(payers) : a < b =>
            /\ InitCash(payers[a].id) >= InitCash(payers[b].id)
            /\ InitCash(payers[a].id) = InitCash(payers[b].id) =>
                    payers[a].id < payers[b].id
    /\ \A k, l \in 1..Len(instructions) : k < l =>
        /\ InitCash(instructions[k].fromId) = InitCash(instructions[l].fromId) =>
                instructions[k].fromId <= instructions[l].fromId
        /\ (/\ instructions[k].fromId = instructions[l].fromId
            /\ InitCash(instructions[k].toId) = InitCash(instructions[l].toId)) =>
                instructions[k].toId > instructions[l].toId

\* C6 witness: one payer has paid two recipients of equal original cashflow.
C6_Witness ==
    /\ pc = "done"
    /\ ValidInput
    /\ \E k, l \in 1..Len(instructions) :
        /\ k < l
        /\ instructions[k].fromId = instructions[l].fromId
        /\ instructions[k].toId # instructions[l].toId
        /\ InitCash(instructions[k].toId) = InitCash(instructions[l].toId)

\* The current payer's cashflow rounds to zero.
PayerSettled == Round(payers[payer].cashflow) = 0

\* C9: the scan of the remaining recipients is redundant once the current payer
\* is settled: every pair visited with a settled payer has a rounded amount of
\* zero, prints nothing and changes no payer.  A loop that leaves the inner scan
\* as soon as the payer is settled omits exactly these steps, so it prints the
\* same lines and ends with the same cashflows.
C9_RescanRedundant ==
    [][(pc = "pair" /\ PayerSettled) =>
        /\ amount_exchanged = 0
        /\ instructions' = instructions
        /\ payers' = payers]_vars

\* C9 witness: a settled payer, having paid, is paired with a recipient that is
\* still owed money.
C9_Witness ==
    /\ pc = "pair"
    /\ ValidInput
    /\ PayerSettled
    /\ is_owed_money(payers[recipient])
    /\ instructions # <<>>

\* C7: an empty table, or one with a repeated name, is rejected: the function
\* does not complete, prints no transfer and changes no cashflow.
C7_EmptyOrDuplicateRejected ==
    (input = <<>> \/ ~UniqueNames) =>
        (pc # "done" /\ instructions = <<>> /\ CashUnchanged)

\* C8: every applied transfer strictly lowers the payer's cashflow without taking
\* it below zero and strictly raises the recipient's without taking it above
\* zero; all other payers, and every name and spent, stay as they are.
C8_TowardZero ==
    [][(ValidInput /\ Emits) =>
        /\ payers'[payer].cashflow < payers[payer].cashflow
        /\ payers'[payer].cashflow >= 0
        /\ payers'[recipient].cashflow > payers[recipient].cashflow
        /\ payers'[recipient].cashflow <= 0
        /\ \A k \in 1..Len(payers) :
            /\ k \notin {payer, recipient} => payers'[k] = payers[k]
            /\ payers'[k].name = payers[k].name
            /\ payers'[k].spent = payers[k].spent]_vars

\* C10: every printed transfer leaves the payer or the recipient settled, so on
\* n >= 1 rows at most n - 1 transfers are printed, at most one per pair.
C10_TransferBound ==
    [][(ValidInput /\ Emits) =>
        /\ \/ Round(payers'[payer].cashflow) = 0
           \/ Round(payers'[recipient].cashflow) = 0
        /\ Len(instructions') <= Len(input) - 1
        /\ \A k, l \in 1..Len(instructions') :
            (/\ instructions'[k].fromId = instructions'[l].fromId
             /\ instructions'[k].toId = instructions'[l].toId) => k = l]_vars
====
